---- MODULE Spec2Model ----
(***************************************************************************)
(* A model of mircatpy/MIRcatPy.py: the MIRcat class, its requires_-       *)
(* connection decorator, call_with_timeout and wait_till.                  *)
(*                                                                         *)
(* Every public method is a straight-line program of guarded SDK calls     *)
(* and local steps.  The model keeps the rest of the running method in     *)
(* `todo`, a sequence of instructions, and stops only where the code       *)
(* blocks: inside call_with_timeout, joined on the worker thread that      *)
(* runs the SDK function.  Everything between two SDK calls (decorator     *)
(* test, snapshot writes, the wait_till comparison, time.sleep) is local   *)
(* to the calling thread and is executed by Advance within one step.       *)
(*                                                                         *)
(* The vendor DLL is not part of the repository: every SDK call may        *)
(* return any return code, write any value of its output type, or hang.    *)
(*                                                                         *)
(* Time is counted in ticks of 0.5 s (the default delay of wait_till).     *)
(* Floats are exact rationals <<n, d>>.                                    *)
(***************************************************************************)
EXTENDS Integers, Sequences, FiniteSets, TLC

VARIABLES
    op,            \* name of the public method running, or that ran last
    args,          \* its arguments
    todo,          \* the instructions it still has to execute; <<>> = idle
    stack,         \* its local values that outlive an SDK call
    _status,       \* self._status
    _scan_status,  \* self._scan_status
    elapsed_time,  \* wait_till: time.time() - start_time, in ticks
    alive,         \* worker threads whose SDK function has not returned
    abandoned,     \* those of them whose call_with_timeout timed out
    result,        \* outcome of the method: return value or exception
    issued,        \* history: SDK entry points called by this method
    nProbes,       \* history: invocations of wait_till's `function`
    lastCall,      \* history: the latest finished call_with_timeout, and
                   \* what its caller reads from the byref arguments
    guardSaw,      \* history: what requires_connection's is_connected() returned
    session        \* history: a connect() returned and no disconnect() since

vars == <<op, args, todo, stack, _status, _scan_status, elapsed_time, alive,
          abandoned,
          result, issued, nProbes, lastCall, guardSaw, session>>

(***************************** bounds **************************************)
\* SDK calls that may hang at the same time
MaxAbandoned == 2
\* largest numerator of the floats given to _ww_interpreter
MaxWW == 10
\* longest SDK call that returns, in ticks, where time is measured
MaxSdkTicks == 1

(************************** program constants ******************************)
MIRcatSDK_RET_SUCCESS == 0
MIRcatSDK_RET_INITIALIZATION_FAILURE == 32
MIRcatSDK_RET_COMM_ERROR == 100
MIRcatSDK_UNITS_MICRONS == 1
MIRcatSDK_UNITS_CM1 == 2
DefaultDelay == 1
DefaultTimeout == 20
TuneTimeout == 60

(**************************** Python values ********************************)
None == <<"None">>
Unknown == <<"?">>
PyBool(b) == <<"bool", b>>
PyNum(n, d) == <<"num", n, d>>
Bools == {PyBool(TRUE), PyBool(FALSE)}
Truthy(v) == v \notin {None, PyBool(FALSE), PyNum(0, 1)}

\* code: the SDK's return code, -1 (a rejected argument), or the strings "-2"
\* (SDK call timed out) and "-3" (requires connection), written -2 and -3
MIRcatError(code) == <<"MIRcatError", code>>
\* MIRcatError(code, message), where the message tells the errors apart
MIRcatErrorWith(code, message) == <<"MIRcatError", code, message>>
TimeoutError == <<"TimeoutError", "wait_till">>
IndexError == <<"IndexError", "list index out of range">>
ZeroDivisionError == <<"ZeroDivisionError", "float division by zero">>

RECURSIVE GCD(_, _)
GCD(x, y) == IF y = 0 THEN x ELSE GCD(y, x % y)
Abs(x) == IF x < 0 THEN -x ELSE x

\* n / d as a float, d # 0
Float(n, d) ==
    LET g == GCD(Abs(n), Abs(d))
        s == IF d < 0 THEN -1 ELSE 1
    IN PyNum((s * n) \div g, (s * d) \div g)

\* the Python expression  1e4 / x
Div1e4(x) == IF x[2] = 0 THEN ZeroDivisionError ELSE Float(10000 * x[3], x[2])

(**************************** instructions *********************************)
Sdk(fn, default, dom) == [k |-> "sdk", a |-> <<fn, default, dom>>]
Local(kind, a) == [k |-> kind, a |-> a]
Raise(exc) == Local("raise", exc)

\* call_with_timeout(self.SDK.<fn>, 5, ...): one instruction, on which the
\* caller blocks in sdk_thread.join(timeout).  default: the value of the
\* ctypes objects passed by reference before the call; dom: what the SDK
\* function may write into them.
call_with_timeout(fn, default, dom) == << Sdk(fn, default, dom) >>

NoOut == {None}

\* what the SDK may report (the DLL is outside the repository)
NumQclReadings == {PyNum(4, 1)}
WWReadings == {<<PyNum(7, 1), MIRcatSDK_UNITS_MICRONS>>,
               <<PyNum(1400, 1), MIRcatSDK_UNITS_CM1>>,
               <<PyNum(0, 1), MIRcatSDK_UNITS_MICRONS>>,
               <<PyNum(-2, 1), MIRcatSDK_UNITS_MICRONS>>}
ParamReadings == {PyNum(1000, 1)}
\* <<isScanInProgress, isScanActive, isScanPaused, curScanRepetition,
\*   curScanPercent, curWW, units, isTECInProgress, isMotionInProgress>>
ScanReadings ==
    {<<PyBool(TRUE), PyBool(TRUE), PyBool(FALSE), PyNum(1, 1), PyNum(50, 1),
       PyNum(8, 1), MIRcatSDK_UNITS_MICRONS, PyBool(FALSE), PyBool(TRUE)>>,
     <<PyBool(FALSE), PyBool(FALSE), PyBool(FALSE), PyNum(0, 1), PyNum(0, 1),
       PyNum(1250, 1), MIRcatSDK_UNITS_CM1, PyBool(FALSE), PyBool(FALSE)>>}
ScanDefault ==
    <<PyBool(FALSE), PyBool(FALSE), PyBool(FALSE), PyNum(0, 1), PyNum(0, 1),
      PyNum(0, 1), 0, PyBool(FALSE), PyBool(FALSE)>>

(****************************** methods ************************************)
is_connected ==
    call_with_timeout("MIRcatSDK_IsConnectedToLaser", PyBool(FALSE), Bools)
    \o << Local("return_out", None) >>

requires_connection(func) ==
    is_connected \o << Local("requires_connection", None) >> \o func

\* a wait_till that waits for the opposite of its target
wait_till_contrary(function, target, delay, timeout) ==
    << Local("wait_till", <<function, PyBool(~target[2]), delay, timeout>>) >>

\* a wait_till that gives up as soon as any time has passed
wait_till_impatient(function, target, delay, timeout) ==
    << Local("wait_till", <<function, target, delay, 0>>) >>

wait_till(function, target, delay, timeout) ==
    << Local("wait_till", <<function, target, delay, timeout>>) >>

connect ==
    call_with_timeout("MIRcatSDK_Initialize", None, NoOut)
    \o wait_till("is_connected", PyBool(TRUE), DefaultDelay, DefaultTimeout)

disconnect ==
    requires_connection(
        call_with_timeout("MIRcatSDK_DeInitialize", None, NoOut)
        \o wait_till("is_connected", PyBool(FALSE), DefaultDelay,
                     DefaultTimeout))

get_num_qcls ==
    requires_connection(
        call_with_timeout("MIRcatSDK_GetNumInstalledQcls", PyNum(0, 1),
                          NumQclReadings)
        \o << Local("return_out", None) >>)

get_interlock_status ==
    requires_connection(
        call_with_timeout("MIRcatSDK_IsInterlockedStatusSet", PyBool(FALSE),
                          Bools)
        \o << Local("return_out", None) >>)

get_key_switch_status ==
    requires_connection(
        call_with_timeout("MIRcatSDK_IsKeySwitchStatusSet", PyBool(FALSE),
                          Bools)
        \o << Local("return_out", None) >>)

get_laser_armed_status ==
    requires_connection(
        call_with_timeout("MIRcatSDK_IsLaserArmed", PyBool(TRUE), Bools)
        \o << Local("set_status", "isArmed") >>)

check_laser_emission ==
    requires_connection(
        call_with_timeout("MIRcatSDK_IsEmissionOn", PyBool(FALSE), Bools)
        \o << Local("set_status", "isEmitting") >>)

is_tuned ==
    requires_connection(
        call_with_timeout("MIRcatSDK_IsTuned", PyBool(FALSE), Bools)
        \o << Local("set_status", "isTuned") >>)

get_ww ==
    requires_connection(
        call_with_timeout("MIRcatSDK_GetActualWW", <<PyNum(0, 1), 0>>,
                          WWReadings)
        \o << Local("set_status_ww", None) >>)

arm_laser ==
    requires_connection(
        call_with_timeout("MIRcatSDK_ArmLaser", None, NoOut)
        \o wait_till("get_laser_armed_status", PyBool(TRUE), DefaultDelay,
                     DefaultTimeout))

disarm_laser ==
    requires_connection(
        call_with_timeout("MIRcatSDK_DisArmLaser", None, NoOut)
        \o wait_till("get_laser_armed_status", PyBool(FALSE), DefaultDelay,
                     DefaultTimeout))

tune(mode, target) ==
    requires_connection(
        call_with_timeout("MIRcatSDK_TuneToWW", None, NoOut)
        \o wait_till("is_tuned", PyBool(TRUE), DefaultDelay, TuneTimeout)
        \o << Local("return_none", None) >>)

enable_emission ==
    requires_connection(
        call_with_timeout("MIRcatSDK_TurnEmissionOn", None, NoOut)
        \o wait_till("check_laser_emission", PyBool(TRUE), DefaultDelay,
                     DefaultTimeout))

disable_emission ==
    requires_connection(
        call_with_timeout("MIRcatSDK_TurnEmissionOff", None, NoOut)
        \o wait_till("check_laser_emission", PyBool(FALSE), DefaultDelay,
                     DefaultTimeout))

\* a status whose not-connected branch also forgets the wavelength
status_forgetful ==
    is_connected
    \o << Local("if",
            << get_num_qcls \o << Local("store_status", "numQCLs") >>
               \o get_interlock_status
               \o << Local("store_status", "isInterlockSet") >>
               \o get_key_switch_status
               \o << Local("store_status", "isKeySwitchSet") >>
               \o get_laser_armed_status
               \o << Local("store_status", "isArmed") >>
               \o check_laser_emission
               \o << Local("store_status", "isEmitting") >>
               \o is_tuned \o << Local("store_status", "isTuned") >>
               \o get_ww \o << Local("store_status_ww", None) >>,
               << Local("store_const", <<"connected", PyBool(FALSE)>>),
                  Local("store_const", <<"wl", Unknown>>) >>
            >>),
          Local("return_status", None) >>

status ==
    is_connected
    \o << Local("if",
            << get_num_qcls \o << Local("store_status", "numQCLs") >>
               \o get_interlock_status
               \o << Local("store_status", "isInterlockSet") >>
               \o get_key_switch_status
               \o << Local("store_status", "isKeySwitchSet") >>
               \o get_laser_armed_status
               \o << Local("store_status", "isArmed") >>
               \o check_laser_emission
               \o << Local("store_status", "isEmitting") >>
               \o is_tuned \o << Local("store_status", "isTuned") >>
               \o get_ww \o << Local("store_status_ww", None) >>,
               << Local("store_const", <<"connected", PyBool(FALSE)>>) >>
            >>),
          Local("return_status", None) >>

get_QCL_PulseRate(QCLnum) ==
    requires_connection(
        call_with_timeout("MIRcatSDK_GetQCLPulseRate", PyNum(0, 1),
                          ParamReadings)
        \o << Local("return_out", None) >>)

get_QCL_PulseWidth(QCLnum) ==
    requires_connection(
        call_with_timeout("MIRcatSDK_GetQCLPulseWidth", PyNum(0, 1),
                          ParamReadings)
        \o << Local("return_out", None) >>)

get_QCL_Current(QCLnum) ==
    requires_connection(
        call_with_timeout("MIRcatSDK_GetQCLCurrent", PyNum(0, 1),
                          ParamReadings)
        \o << Local("return_out", None) >>)

get_QCL_params(QCLnum) ==
    requires_connection(
        get_QCL_PulseRate(QCLnum) \o << Local("push", None) >>
        \o get_QCL_PulseWidth(QCLnum) \o << Local("push", None) >>
        \o get_QCL_Current(QCLnum) \o << Local("push", None) >>
        \o << Local("return_params", QCLnum) >>)

get_QCL_params_all ==
    requires_connection(
        << Local("new_list", None) >>
        \o get_QCL_params(1) \o << Local("list_append", None) >>
        \o get_QCL_params(2) \o << Local("list_append", None) >>
        \o get_QCL_params(3) \o << Local("list_append", None) >>
        \o get_QCL_params(4) \o << Local("list_append", None) >>
        \o << Local("return_top", None) >>)

cur_limits == <<800, 820, 630, 950>>

\* Python's list[i] for i >= 0
HasIndex(list, i) == i < Len(list)
Subscript(list, i) == list[i + 1]

\* 1e-6 * puls_rate * puls_width > 5, for integer arguments
duty_cycle_micro(puls_rate, puls_width) == puls_rate * puls_width

set_QCL_params(QCLnum, puls_rate, puls_width, current) ==
    requires_connection(
        LET duty_cycle == duty_cycle_micro(puls_rate, puls_width) IN
        IF QCLnum \notin {1, 2, 3, 4}
        THEN << Raise(MIRcatErrorWith(-1,
                    "Wrong QCLnum: must be one of 1,2,3,4")) >>
        ELSE IF puls_rate < 10 \/ puls_rate > 100000
        THEN << Raise(MIRcatErrorWith(-1,
                    "Puls rate limit: 10 <= puls rate <= 100000")) >>
        ELSE IF duty_cycle < 0 \/ duty_cycle > 5 * 1000000
        THEN << Raise(MIRcatErrorWith(-1,
                    "Duty cycle limit: 0% <= duty cycle <= 5%")) >>
        ELSE IF puls_width < 0 \/ puls_width > 100
        THEN << Raise(MIRcatErrorWith(-1,
                    "Duty cycle limit: 0 <= puls width <= 100")) >>
        \* cur_limits[QCLnum] is evaluated by the test, or else by the
        \* message of the exception
        ELSE IF ~HasIndex(cur_limits, QCLnum) THEN << Raise(IndexError) >>
        ELSE IF current < 0 \/ current > Subscript(cur_limits, QCLnum)
        THEN << Raise(MIRcatErrorWith(-1, "Current limit: 0 <= current <=")) >>
        ELSE call_with_timeout("MIRcatSDK_SetQCLParams", None, NoOut)
             \o << Local("return_none", None) >>)

startSweepScan(mode, start, end, speed, repetitions, bidirectional) ==
    requires_connection(
        call_with_timeout("MIRcatSDK_StartSweepScan", None, NoOut)
        \o << Local("return_none", None) >>)

stopScan ==
    requires_connection(
        call_with_timeout("MIRcatSDK_StopScanInProgress", None, NoOut)
        \o << Local("return_none", None) >>)

pauseScan ==
    requires_connection(
        call_with_timeout("MIRcatSDK_PauseScanInProgress", None, NoOut)
        \o << Local("return_none", None) >>)

resumeScan ==
    requires_connection(
        call_with_timeout("MIRcatSDK_ResumeScanInProgress", None, NoOut)
        \o << Local("return_none", None) >>)

scanStatus ==
    requires_connection(
        call_with_timeout("MIRcatSDK_GetScanStatus", ScanDefault,
                          ScanReadings)
        \o << Local("set_scan_status", None) >>)

__del__ == disconnect

\* the bound method handed to wait_till
function_named(name) ==
    CASE name = "is_connected" -> is_connected
      [] name = "get_laser_armed_status" -> get_laser_armed_status
      [] name = "check_laser_emission" -> check_laser_emission
      [] name = "is_tuned" -> is_tuned

\* `x and 1e4 / x or 0`
AndOr(x) ==
    IF Truthy(x)
    THEN (IF Truthy(Div1e4(x)) THEN Div1e4(x) ELSE PyNum(0, 1))
    ELSE PyNum(0, 1)

_ww_interpreter(val, unit) ==
    IF unit = MIRcatSDK_UNITS_MICRONS
    THEN LET wl == val
             wn == AndOr(wl)
         IN <<wl, wn>>
    ELSE LET wn == val
             wl == AndOr(wn)
         IN <<wl, wn>>

(**************************** local execution ******************************)
\* m: the calling thread's registers and the instance fields it writes
Pop(m) == [m EXCEPT !.todo = Tail(m.todo)]
Throw(m, exc) == [m EXCEPT !.err = exc, !.todo = <<>>]
Top(s) == s[Len(s)]
Drop(s, n) == SubSeq(s, 1, Len(s) - n)

Step(m) ==
    LET i == Head(m.todo) IN
    CASE i.k = "raise" -> Throw(m, i.a)
      [] i.k = "return_out" -> [Pop(m) EXCEPT !.val = m.out]
      [] i.k = "return_none" -> [Pop(m) EXCEPT !.val = None]
      [] i.k = "requires_connection" ->
           IF Truthy(m.val)
           THEN [Throw(m, MIRcatError(-3)) EXCEPT !.guardSaw = m.val]
           ELSE [Pop(m) EXCEPT !.guardSaw = m.val]
      [] i.k = "if" ->
           [m EXCEPT !.todo = (IF Truthy(m.val) THEN i.a[1] ELSE i.a[2])
                              \o Tail(m.todo)]
      [] i.k = "set_status" ->
           [Pop(m) EXCEPT !._status[i.a] = m.out, !.val = m.out]
      [] i.k = "store_status" -> [Pop(m) EXCEPT !._status[i.a] = m.val]
      [] i.k = "store_const" -> [Pop(m) EXCEPT !._status[i.a[1]] = i.a[2]]
      [] i.k = "set_status_ww" ->
           LET r == _ww_interpreter(m.out[1], m.out[2]) IN
           IF ZeroDivisionError \in {r[1], r[2]}
           THEN Throw(m, ZeroDivisionError)
           ELSE [Pop(m) EXCEPT !._status.wl = r[1], !._status.wn = r[2],
                               !.val = r]
      [] i.k = "store_status_ww" ->
           [Pop(m) EXCEPT !._status.wl = m.val[1], !._status.wn = m.val[2]]
      [] i.k = "return_status" -> [Pop(m) EXCEPT !.val = m._status]
      [] i.k = "set_scan_status" ->
           LET r == _ww_interpreter(m.out[6], m.out[7])
               d == [isScanInProgress |-> m.out[1],
                     isScanActive |-> m.out[2],
                     isScanPaused |-> m.out[3],
                     curScanRepetition |-> m.out[4],
                     curScanPercent |-> m.out[5],
                     curWW |-> m.out[6],
                     isTECInProgress |-> m.out[8],
                     isMotionInProgress |-> m.out[9],
                     wl |-> r[1],
                     wn |-> r[2]]
           IN IF ZeroDivisionError \in {r[1], r[2]}
              THEN Throw(m, ZeroDivisionError)
              ELSE [Pop(m) EXCEPT !._scan_status = d, !.val = d]
      [] i.k = "push" -> [Pop(m) EXCEPT !.stack = Append(m.stack, m.val)]
      [] i.k = "return_params" ->
           LET n == Len(m.stack) IN
           [Pop(m) EXCEPT !.stack = Drop(m.stack, 3),
                          !.val = [QCLnum |-> i.a,
                                   puls_rate |-> m.stack[n - 2],
                                   puls_width |-> m.stack[n - 1],
                                   current |-> m.stack[n]]]
      [] i.k = "new_list" -> [Pop(m) EXCEPT !.stack = Append(m.stack, <<>>)]
      [] i.k = "list_append" ->
           [Pop(m) EXCEPT !.stack = Append(Drop(m.stack, 1),
                                           Append(Top(m.stack), m.val))]
      [] i.k = "return_top" ->
           [Pop(m) EXCEPT !.stack = Drop(m.stack, 1), !.val = Top(m.stack)]
      [] i.k = "wait_till" ->
           [m EXCEPT !.elapsed_time = 0, !.nProbes = 1,
                     !.todo = function_named(i.a[1])
                              \o << Local("wait_test", i.a) >>
                              \o Tail(m.todo)]
      [] i.k = "wait_test" ->
           IF m.val = i.a[2]
           THEN [Pop(m) EXCEPT !.val = PyBool(TRUE)]
           ELSE IF m.elapsed_time > i.a[4]
           THEN Throw(m, TimeoutError)
           ELSE [m EXCEPT !.elapsed_time = @ + i.a[3], !.nProbes = @ + 1,
                          !.todo = function_named(i.a[1]) \o m.todo]

RECURSIVE Advance(_)
\* (s is bound to the value of Step(m), so that it is evaluated once)
Advance(m) ==
    IF m.todo = <<>> \/ Head(m.todo).k = "sdk" THEN m
    ELSE CHOOSE r \in {Advance(s) : s \in {Step(m)}} : TRUE

(******************************* threads ***********************************)
check_return_value(ret) ==
    IF ret # MIRcatSDK_RET_SUCCESS THEN <<"raise", MIRcatError(ret)>>
    ELSE <<"return", PyBool(TRUE)>>

\* the worker thread's target
call_sdk(ret) == check_return_value(ret)

\* a call_with_timeout that lets a thread that is still alive go unnoticed
call_with_timeout_silent(is_alive, thread_outcome) == None

\* what call_with_timeout hands to its caller once join(timeout) is over:
\* the exception raised on is_alive(), or nothing.  The outcome of call_sdk
\* stays in the worker thread.
call_with_timeout_outcome(is_alive, thread_outcome) ==
    IF is_alive THEN MIRcatError(-2) ELSE None

\* a join that leaves a finished worker thread among the running ones
ThreadsNeverEnd(n, is_alive) == n

\* the worker threads still running once sdk_thread.join(timeout) is over
ThreadsAfterJoin(n, is_alive) == IF is_alive THEN n ELSE n - 1

RetCodes == {MIRcatSDK_RET_SUCCESS, MIRcatSDK_RET_INITIALIZATION_FAILURE,
             MIRcatSDK_RET_COMM_ERROR}

\* how long a returning SDK call may take, in ticks
SdkTicks == {0}

(******************************* actions ***********************************)
\* a method whose exceptions reach its caller
OutcomePropagating(name, err, val) ==
    IF err = None THEN <<"return", val>> ELSE <<"raise", err>>

\* how a method ends for the code that invoked it.  __del__ is invoked by
\* the interpreter when the instance is destroyed: an exception that leaves
\* it is reported on stderr ("Exception ignored in ...") and goes no further
Outcome(name, err, val) ==
    IF err = None THEN <<"return", val>>
    ELSE IF name = "__del__" THEN <<"unraisable", err>>
    ELSE <<"raise", err>>

NoCall == [fn |-> "none", ret |-> -1, raised |-> None, out |-> None]

\* running: the worker threads that go on running; the method's next
\* call_with_timeout starts one more
Settle(m, running) ==
    /\ todo' = m.todo
    /\ alive' = IF m.todo = <<>> THEN running ELSE running + 1
    /\ stack' = IF m.todo = <<>> THEN <<>> ELSE m.stack
    /\ _status' = m._status
    /\ _scan_status' = m._scan_status
    /\ elapsed_time' = m.elapsed_time
    /\ nProbes' = m.nProbes
    /\ guardSaw' = m.guardSaw
    /\ issued' = IF m.todo = <<>> THEN m.issued
                 ELSE m.issued \cup {Head(m.todo).a[1]}
    /\ result' = IF m.todo # <<>> THEN <<"running">>
                 ELSE Outcome(m.op, m.err, m.val)
    /\ session' = IF m.todo = <<>> /\ m.err = None
                  THEN (IF m.op = "connect" THEN TRUE
                        ELSE IF m.op = "disconnect" THEN FALSE ELSE session)
                  ELSE session

Machine(prog) ==
    [op |-> op, todo |-> prog, stack |-> stack, val |-> None, out |-> None,
     err |-> None, _status |-> _status, _scan_status |-> _scan_status,
     elapsed_time |-> elapsed_time, nProbes |-> nProbes,
     guardSaw |-> guardSaw, issued |-> issued]

\* the caller invokes a public method; it runs up to its first SDK call.
\* No method is invoked on an instance that has been destroyed.
Call(name, a, prog) ==
    /\ todo = <<>>
    /\ op # "__del__"
    /\ op' = name
    /\ args' = a
    /\ lastCall' = NoCall
    /\ Settle(Advance([Machine(prog) EXCEPT !.op = name, !.elapsed_time = 0,
                          !.nProbes = 0, !.guardSaw = None, !.issued = {}]),
              alive)
    /\ UNCHANGED abandoned

InWait == \E i \in 1..Len(todo) : todo[i].k = "wait_test"

\* the SDK function returns before join(timeout) gives up; the caller goes
\* on to its next SDK call, or to the end of the method
SdkReturns(ret, written, d) ==
    /\ todo # <<>>
    /\ LET i == Head(todo)
           exc == call_with_timeout_outcome(FALSE, call_sdk(ret))
           m == [Machine(Tail(todo)) EXCEPT
                   !.out = IF ret = MIRcatSDK_RET_SUCCESS THEN written
                           ELSE i.a[2],
                   !.elapsed_time = IF InWait THEN @ + d ELSE @]
       IN /\ written \in i.a[3]
          /\ lastCall' = [fn |-> i.a[1], ret |-> ret, raised |-> exc,
                           out |-> m.out]
          /\ \E after \in {IF exc = None THEN Advance(m)
                            ELSE Throw(m, exc)} :
                Settle(after, ThreadsAfterJoin(alive, FALSE))
    /\ UNCHANGED <<op, args, abandoned>>

\* join(timeout) gives up while the SDK function is still running
SdkTimesOut ==
    /\ todo # <<>>
    /\ abandoned < MaxAbandoned
    /\ LET exc == call_with_timeout_outcome(TRUE, None)
       IN /\ lastCall' = [fn |-> Head(todo).a[1], ret |-> -1, raised |-> exc,
                           out |-> None]
          /\ Settle(Throw(Machine(todo), exc), ThreadsAfterJoin(alive, TRUE))
    /\ abandoned' = abandoned + 1
    /\ UNCHANGED <<op, args>>

\* an SDK function whose caller gave up returns at last
AbandonedReturns ==
    /\ abandoned > 0
    /\ abandoned' = abandoned - 1
    /\ alive' = alive - 1
    /\ UNCHANGED <<op, args, todo, stack, _status, _scan_status, elapsed_time,
                   result, issued, nProbes, lastCall, guardSaw, session>>

Init ==
    /\ op = "none"
    /\ args = <<>>
    /\ todo = <<>>
    /\ stack = <<>>
    /\ _status = [connected |-> PyBool(FALSE), numQCLs |-> Unknown,
                  isInterlockSet |-> Unknown, isKeySwitchSet |-> Unknown,
                  isEmitting |-> Unknown, isArmed |-> Unknown,
                  isTuned |-> Unknown, wl |-> Unknown, wn |-> Unknown]
    /\ _scan_status = [isScanInProgress |-> Unknown, isScanActive |-> Unknown,
                       isScanPaused |-> Unknown,
                       curScanRepetition |-> Unknown,
                       curScanPercent |-> Unknown, curWW |-> Unknown,
                       units |-> Unknown, isTECInProgress |-> Unknown,
                       isMotionInProgress |-> Unknown, wl |-> Unknown,
                       wn |-> Unknown]
    /\ elapsed_time = 0
    /\ alive = 0
    /\ abandoned = 0
    /\ result = <<"none">>
    /\ issued = {}
    /\ nProbes = 0
    /\ lastCall = NoCall
    /\ guardSaw = None
    /\ session = FALSE

Modes == {"wl", "wn", "nm"}

\* arguments of set_QCL_params: every channel with a current around every
\* entry of cur_limits; channel 1 with a pulse rate and a pulse width around
\* every limit the method tests; several arguments out of range at once
QCLInputs ==
    ((0 .. 5) \X {1000} \X {1}
              \X {-1, 0, 630, 631, 800, 801, 820, 821, 950, 951})
    \cup ({1} \X {5, 10, 1000, 100000, 200000}
              \X {-1, 0, 1, 51, 100, 101} \X {100})
    \cup ({0, 4} \X {5, 200000} \X {-1, 101} \X {-1, 951})

\* arguments of _ww_interpreter: floats n/1 and n/2, and any units byte
WWInputs ==
    {Float(n, d) : n \in -MaxWW .. MaxWW, d \in {1, 2}}
    \X {0, MIRcatSDK_UNITS_MICRONS, MIRcatSDK_UNITS_CM1, 3}

Connect == Call("connect", <<>>, connect)
IsConnected == Call("is_connected", <<>>, is_connected)
Disconnect == Call("disconnect", <<>>, disconnect)
Status == Call("status", <<>>, status)
GetNumQcls == Call("get_num_qcls", <<>>, get_num_qcls)
GetInterlockStatus == Call("get_interlock_status", <<>>, get_interlock_status)
GetKeySwitchStatus ==
    Call("get_key_switch_status", <<>>, get_key_switch_status)
ArmLaser == Call("arm_laser", <<>>, arm_laser)
DisarmLaser == Call("disarm_laser", <<>>, disarm_laser)
Tune == \E mode \in Modes, target \in {7} :
    Call("tune", <<mode, target>>, tune(mode, target))
IsTuned == Call("is_tuned", <<>>, is_tuned)
GetWW == Call("get_ww", <<>>, get_ww)
EnableEmission == Call("enable_emission", <<>>, enable_emission)
DisableEmission == Call("disable_emission", <<>>, disable_emission)
CheckLaserEmission == Call("check_laser_emission", <<>>, check_laser_emission)
GetLaserArmedStatus ==
    Call("get_laser_armed_status", <<>>, get_laser_armed_status)
GetQCLParamsAll == Call("get_QCL_params_all", <<>>, get_QCL_params_all)
GetQCLParams == \E n \in {1} :
    Call("get_QCL_params", <<n>>, get_QCL_params(n))
SetQCLParams == \E a \in QCLInputs :
    Call("set_QCL_params", a, set_QCL_params(a[1], a[2], a[3], a[4]))

\* _ww_interpreter on its own: it reads and writes no field of the instance
WWInterpreter == \E a \in WWInputs :
    /\ todo = <<>>
    /\ op' = "_ww_interpreter"
    /\ args' = a
    /\ result' = LET r == _ww_interpreter(a[1], a[2]) IN
                 IF ZeroDivisionError \in {r[1], r[2]}
                 THEN <<"raise", ZeroDivisionError>> ELSE <<"return", r>>
    /\ UNCHANGED <<todo, stack, _status, _scan_status, elapsed_time, alive,
                   abandoned, issued, nProbes, lastCall, guardSaw, session>>
StartSweepScan == \E mode \in Modes, repetitions \in {0, 1} :
    Call("startSweepScan", <<mode, 7, 8, 1, repetitions, FALSE>>,
         startSweepScan(mode, 7, 8, 1, repetitions, FALSE))
StopScan == Call("stopScan", <<>>, stopScan)
PauseScan == Call("pauseScan", <<>>, pauseScan)
ResumeScan == Call("resumeScan", <<>>, resumeScan)
ScanStatus == Call("scanStatus", <<>>, scanStatus)

\* the instance is destroyed
Del == Call("__del__", <<>>, __del__)

SdkCall ==
    /\ todo # <<>>
    /\ \E ret \in RetCodes, d \in SdkTicks :
         \E written \in Head(todo).a[3] : SdkReturns(ret, written, d)

\* the connection, the laser and the scan
Next ==
    \/ Connect
    \/ IsConnected
    \/ Disconnect
    \/ ArmLaser
    \/ DisarmLaser
    \/ Tune
    \/ IsTuned
    \/ EnableEmission
    \/ DisableEmission
    \/ CheckLaserEmission
    \/ GetLaserArmedStatus
    \/ StartSweepScan
    \/ StopScan
    \/ PauseScan
    \/ ResumeScan
    \/ SdkCall
    \/ SdkTimesOut
    \/ AbandonedReturns

Spec == Init /\ [][Next]_vars

\* set_QCL_params, for every combination of QCLInputs
NextQCL ==
    \/ SetQCLParams
    \/ SdkCall
    \/ SdkTimesOut
    \/ AbandonedReturns

SpecQCL == Init /\ [][NextQCL]_vars

\* _ww_interpreter, for every pair of WWInputs
NextWW == WWInterpreter

SpecWW == Init /\ [][NextWW]_vars

\* the status property and get_ww
NextStatus ==
    \/ Status
    \/ GetWW
    \/ SdkCall
    \/ SdkTimesOut
    \/ AbandonedReturns

SpecStatus == Init /\ [][NextStatus]_vars

\* get_QCL_params_all
NextParams ==
    \/ GetQCLParamsAll
    \/ SdkCall
    \/ SdkTimesOut
    \/ AbandonedReturns

SpecParams == Init /\ [][NextParams]_vars

\* an SDK call that returns after 0 .. MaxSdkTicks ticks
SdkCallLasting ==
    /\ todo # <<>>
    /\ \E ret \in RetCodes, d \in 0 .. MaxSdkTicks :
         \E written \in Head(todo).a[3] : SdkReturns(ret, written, d)

\* wait_till, with the undecorated probe of connect and the decorated probe
\* of arm_laser, and SDK calls that take time
NextWait ==
    \/ Connect
    \/ ArmLaser
    \/ SdkCallLasting
    \/ SdkTimesOut
    \/ AbandonedReturns

SpecWait == Init /\ [][NextWait]_vars

\* sdk_thread.join(timeout) always comes back: the SDK function has
\* returned, or the timeout is over
FairWait == SpecWait /\ WF_vars(SdkCallLasting \/ SdkTimesOut)

\* an instance that is connected, or not, and then destroyed
NextDel ==
    \/ Connect
    \/ Del
    \/ SdkCall
    \/ SdkTimesOut
    \/ AbandonedReturns

SpecDel == Init /\ [][NextDel]_vars

\* the scan and the scanStatus property
NextScan ==
    \/ StartSweepScan
    \/ StopScan
    \/ PauseScan
    \/ ResumeScan
    \/ ScanStatus
    \/ SdkCall
    \/ SdkTimesOut
    \/ AbandonedReturns

SpecScan == Init /\ [][NextScan]_vars

(******************************* claims ************************************)
Returned == todo = <<>> /\ result[1] = "return"
Raised(exc) ==
    /\ todo = <<>>
    /\ result[1] = "raise"
    /\ result[2][1] = exc[1]
    /\ result[2][2] = exc[2]
NotConnectedError == MIRcatError(-3)
DriverTimeout == MIRcatError(-2)
ValidationError == MIRcatError(-1)

\* the methods under @requires_connection
Decorated ==
    {"disconnect", "get_num_qcls", "get_interlock_status",
     "get_key_switch_status", "arm_laser", "disarm_laser", "tune",
     "is_tuned", "get_ww", "enable_emission", "disable_emission",
     "check_laser_emission", "get_laser_armed_status", "get_QCL_params_all",
     "get_QCL_PulseRate", "get_QCL_PulseWidth", "get_QCL_Current",
     "get_QCL_params", "set_QCL_params", "startSweepScan", "stopScan",
     "pauseScan", "resumeScan", "scanStatus"}

\* C1: a method other than connect that is called while the instrument is
\* not connected (the SDK answers "not connected" to the method's own
\* test, and no SDK call of the method times out) fails with the
\* not-connected error and has issued no SDK call.
C1_NotConnectedFails ==
    (/\ todo = <<>>
     /\ op \in Decorated
     /\ guardSaw = PyBool(FALSE)
     /\ ~Raised(DriverTimeout))
        => (Raised(NotConnectedError) /\ issued = {})

\* C2: after a connect() that returned, while the SDK answers "connected",
\* a method that requires the connection is not turned away with the
\* not-connected error.
C2_ConnectedNotRejected ==
    (session /\ op \in Decorated /\ guardSaw = PyBool(TRUE))
        => ~Raised(NotConnectedError)

\* C3: a guarded call whose SDK function returned within the timeout hands
\* its caller nothing for return code 0 and MIRcatError(code) for any other
\* code.
C3_ReturnCodeReachesCaller ==
    lastCall.ret >= 0
        => lastCall.raised = (IF lastCall.ret = MIRcatSDK_RET_SUCCESS
                              THEN None ELSE MIRcatError(lastCall.ret))

Initiating ==
    {"MIRcatSDK_Initialize", "MIRcatSDK_DeInitialize", "MIRcatSDK_ArmLaser",
     "MIRcatSDK_DisArmLaser", "MIRcatSDK_TuneToWW",
     "MIRcatSDK_TurnEmissionOn", "MIRcatSDK_TurnEmissionOff"}

\* C4: in the step in which the initiating SDK call of connect, disconnect,
\* arm_laser, disarm_laser, tune, enable_emission or disable_emission
\* returns a non-zero code, the method fails and wait_till's probe is not
\* invoked.
C4_NoWaitAfterFailedCall ==
    [][(/\ todo # <<>>
        /\ Head(todo).a[1] \in Initiating
        /\ lastCall'.fn = Head(todo).a[1]
        /\ lastCall'.ret > 0)
         => (nProbes' = 0 /\ todo' = <<>> /\ result'[1] = "raise")]_vars

\* the caller stops waiting for an SDK call that has not returned
GivesUp == todo # <<>> /\ todo' # todo /\ lastCall'.ret < 0

\* C5: when the timeout elapses before the SDK function has returned, the
\* guarded call raises the timeout error, which ends the method (the
\* caller is not blocked any longer), and the worker thread goes on
\* running; a caller blocked in a guarded call can always take that step.
C5_TimeoutUnblocksCaller ==
    /\ [][GivesUp => /\ todo' = <<>>
                     /\ result' = <<"raise", DriverTimeout>>
                     /\ alive' = alive
                     /\ abandoned' = abandoned + 1]_vars
    /\ []((todo # <<>> /\ abandoned < MaxAbandoned) => ENABLED SdkTimesOut)

C5_Witness ==
    /\ Raised(DriverTimeout)
    /\ alive = 1
    /\ abandoned = 1

\* C6 as stated: at most one guarded SDK call is outstanding at any time
C6_AtMostOneOutstanding == alive <= 1

\* C6 amended: besides the SDK calls whose call_with_timeout timed out, at
\* most one SDK call is outstanding, and none while no method is running.
C6_OneBesidesTimedOut ==
    /\ alive <= abandoned + 1
    /\ todo = <<>> => alive = abandoned
    /\ abandoned = 0 => alive <= 1

C6_Witness == todo # <<>> /\ abandoned = 1 /\ alive = 2

\* the body of set_QCL_params was reached and no SDK call of this
\* invocation timed out
Validated ==
    /\ todo = <<>>
    /\ op = "set_QCL_params"
    /\ ~Raised(NotConnectedError)
    /\ ~Raised(DriverTimeout)

\* the duty cycle in percent, rate * width * 1e-6 * 100, is above 5
DutyAbove5Percent(puls_rate, puls_width) == puls_rate * puls_width > 50000

perChannelMax == <<800, 820, 630, 950>>

\* C7: set_QCL_params issues no MIRcatSDK_SetQCLParams call for a pulse
\* rate and width whose duty cycle is above 5 percent, and the invocation
\* ends with an error.
C7_DutyCycleRejected ==
    (op = "set_QCL_params" /\ DutyAbove5Percent(args[2], args[3]))
        => /\ "MIRcatSDK_SetQCLParams" \notin issued
           /\ todo = <<>> => result[1] = "raise"

\* C8: for a channel in 1..4 with rate, width and duty cycle in range,
\* set_QCL_params issues MIRcatSDK_SetQCLParams when the current is between
\* 0 and the channel's maximum of 800, 820, 630, 950, and fails with the
\* validation error, without that call, when the current is above it.
C8_PerChannelMaximum ==
    (/\ Validated
     /\ args[1] \in 1 .. 4
     /\ args[2] >= 10 /\ args[2] <= 100000
     /\ args[3] >= 0 /\ args[3] <= 100
     /\ ~DutyAbove5Percent(args[2], args[3])
     /\ args[4] >= 0)
        => IF args[4] <= perChannelMax[args[1]]
           THEN "MIRcatSDK_SetQCLParams" \in issued
           ELSE /\ Raised(ValidationError)
                /\ "MIRcatSDK_SetQCLParams" \notin issued

\* C9: set_QCL_params with a channel outside 1..4, a rate outside
\* [10, 100000], a width outside [0, 100] or a negative current fails with
\* the validation error and issues no MIRcatSDK_SetQCLParams call.
C9_FailFast ==
    (/\ Validated
     /\ \/ args[1] \notin 1 .. 4
        \/ args[2] < 10 \/ args[2] > 100000
        \/ args[3] < 0 \/ args[3] > 100
        \/ args[4] < 0)
        => /\ Raised(ValidationError)
           /\ "MIRcatSDK_SetQCLParams" \notin issued

\* C10: _ww_interpreter raises no ZeroDivisionError, and for a value that
\* is zero or negative the quantity it derives (the wavenumber for microns,
\* the wavelength otherwise) is 0.
C10_NonPositiveGivesZero ==
    op = "_ww_interpreter"
        => /\ result[1] = "return"
           /\ args[1][2] <= 0 =>
                IF args[2] = MIRcatSDK_UNITS_MICRONS
                THEN result[2][2] = PyNum(0, 1)
                ELSE result[2][1] = PyNum(0, 1)

\* C11: a read of the status property whose latest is_connected() was
\* answered by the SDK (return code 0) returns the snapshot, and the
\* snapshot's "connected" is what the SDK answered.
C11_StatusConnectedFlag ==
    (/\ op = "status"
     /\ todo = <<>>
     /\ lastCall.fn = "MIRcatSDK_IsConnectedToLaser"
     /\ lastCall.ret = MIRcatSDK_RET_SUCCESS)
        => /\ Returned
           /\ result[2].connected = lastCall.out

\* a call_with_timeout of the running method ends in failure: its SDK
\* function returns a non-zero code, or join(timeout) gives up
QueryFails ==
    /\ todo # <<>>
    /\ lastCall'.fn = Head(todo).a[1]
    /\ \/ lastCall'.ret > 0 /\ abandoned' = abandoned
       \/ lastCall'.ret < 0 /\ abandoned' = abandoned + 1

\* C12: a step in which an SDK query fails (non-zero return code, or
\* timeout) leaves every field of the status snapshot as it was.
C12_FailedQueryKeepsSnapshot == [][QueryFails => _status' = _status]_vars

\* wavelength and wavenumber agree: both unknown, both 0, or a positive
\* wavelength with wavenumber = 10000 / wavelength
WWConsistent(wl, wn) ==
    \/ wl = Unknown /\ wn = Unknown
    \/ wl = PyNum(0, 1) /\ wn = PyNum(0, 1)
    \/ wl[1] = "num" /\ wl[2] > 0 /\ wn = Div1e4(wl)

\* C13: in every reachable state the "wl" and "wn" of the status snapshot
\* are consistent.
C13_WavelengthWavenumberConsistent == WWConsistent(_status.wl, _status.wn)

ChannelReads ==
    {"MIRcatSDK_GetQCLPulseRate", "MIRcatSDK_GetQCLPulseWidth",
     "MIRcatSDK_GetQCLCurrent"}

\* C14: a get_QCL_params_all() that returns, returns 4 entries of which the
\* i-th carries QCLnum = i; and the step in which the SDK returns a
\* non-zero code for a read of one channel ends the whole call with an
\* error.
C14_AllOrNothing ==
    /\ []((op = "get_QCL_params_all" /\ Returned)
            => /\ Len(result[2]) = 4
               /\ \A i \in 1 .. 4 : result[2][i].QCLnum = i)
    /\ [][(/\ op = "get_QCL_params_all"
           /\ todo # <<>>
           /\ Head(todo).a[1] \in ChannelReads
           /\ lastCall'.fn = Head(todo).a[1]
           /\ lastCall'.ret > 0
           /\ abandoned' = abandoned)
            => (todo' = <<>> /\ result'[1] = "raise")]_vars

\* SDK calls of one invocation of wait_till's `function`: is_connected makes
\* one, a method under @requires_connection two
ProbeCalls == IF op = "connect" THEN 1 ELSE 2

\* C15 as stated: wait_till raises TimeoutError after the timeout has
\* elapsed and no later than about one delay after it (two, at most).
C15_OvershootOnePoll ==
    Raised(TimeoutError)
        => /\ elapsed_time > DefaultTimeout
           /\ elapsed_time <= DefaultTimeout + 2 * DefaultDelay

\* C15 amended: a wait_till whose `function` goes on returning ends; when it
\* ends with TimeoutError the timeout has elapsed, by no more than one delay
\* and the duration of the last invocation of `function`; and every
\* wait_till starts counting at 0.
C15_TimeoutWindow ==
    /\ [](Raised(TimeoutError)
            => /\ elapsed_time > DefaultTimeout
               /\ elapsed_time <= DefaultTimeout + DefaultDelay
                                    + ProbeCalls * MaxSdkTicks)
    /\ [][(~InWait /\ InWait') => (elapsed_time' = 0 /\ nProbes' = 1)]_vars
    /\ (InWait ~> todo = <<>>)

C15_Witness ==
    /\ op = "arm_laser"
    /\ Raised(TimeoutError)
    /\ elapsed_time = DefaultTimeout + DefaultDelay + ProbeCalls * MaxSdkTicks

\* the target the running method hands to wait_till
WaitTarget ==
    IF op \in {"disconnect", "disarm_laser", "disable_emission"}
    THEN PyBool(FALSE) ELSE PyBool(TRUE)

\* the first invocation of wait_till's `function` returns the target
FirstProbeHits ==
    /\ InWait
    /\ nProbes = 1
    /\ Len(todo) >= 3
    /\ todo[2].k \in {"return_out", "set_status"}
    /\ todo[3].k = "wait_test"
    /\ lastCall'.fn = Head(todo).a[1]
    /\ abandoned' = abandoned
    /\ lastCall'.out = WaitTarget

\* C16: when the first invocation of `function` returns the target,
\* wait_till returns at once: `function` has been invoked once, no
\* time.sleep has run, and the method returns.
C16_FirstProbeSuffices ==
    [][FirstProbeHits => /\ ~InWait'
                         /\ nProbes' = 1
                         /\ elapsed_time' = 0
                         /\ result'[1] = "return"]_vars

C16_Witness ==
    /\ op = "connect"
    /\ Returned
    /\ nProbes = 1
    /\ lastCall.out = PyBool(TRUE)

SnapshotReadings ==
    {"numQCLs", "isInterlockSet", "isKeySwitchSet", "isEmitting", "isArmed",
     "isTuned", "wl", "wn"}

\* C18: when connect() has returned, every field of the status snapshot
\* other than "connected" is the unknown marker "?".
C18_ConnectResetsSnapshot ==
    (op = "connect" /\ Returned)
        => \A f \in SnapshotReadings : _status[f] = Unknown

\* the message of the error that set_QCL_params raises for the pulse width
WidthMessage == "Duty cycle limit: 0 <= puls width <= 100"

\* C19: when the channel and the pulse rate are in range and the pulse
\* width is outside [0, 100], the error of set_QCL_params is the one of
\* the pulse width, whatever the duty cycle is.
C19_WidthBeforeDutyCycle ==
    (/\ Validated
     /\ args[1] \in 1 .. 4
     /\ args[2] >= 10 /\ args[2] <= 100000
     /\ (args[3] < 0 \/ args[3] > 100))
        => /\ Raised(ValidationError)
           /\ result[2][3] = WidthMessage

\* C20: tune and startSweepScan called with a mode that is neither "wl" nor
\* "wn" issue neither MIRcatSDK_TuneToWW nor MIRcatSDK_StartSweepScan, and
\* end with an error.
C20_UnitTagRejected ==
    (op \in {"tune", "startSweepScan"} /\ args[1] \notin {"wl", "wn"})
        => /\ "MIRcatSDK_TuneToWW" \notin issued
           /\ "MIRcatSDK_StartSweepScan" \notin issued
           /\ todo = <<>> => result[1] = "raise"

\* C21: startSweepScan issues MIRcatSDK_StartSweepScan only when its
\* repetitions argument is at least 1; it has issued that call when it
\* returns, and it invokes no status probe and never sleeps.
C21_ScanStartNeedsRepetitions ==
    op = "startSweepScan"
        => /\ "MIRcatSDK_StartSweepScan" \in issued => args[5] >= 1
           /\ Returned => "MIRcatSDK_StartSweepScan" \in issued
           /\ nProbes = 0
           /\ elapsed_time = 0

\* the is_connected() of the status property itself (not the one of a
\* decorator) is answered by the SDK with "not connected"
StatusSeesNotConnected ==
    /\ op = "status"
    /\ Len(todo) >= 3
    /\ Head(todo).a[1] = "MIRcatSDK_IsConnectedToLaser"
    /\ todo[3].k = "if"
    /\ lastCall'.fn = Head(todo).a[1]
    /\ abandoned' = abandoned
    /\ lastCall'.ret = MIRcatSDK_RET_SUCCESS
    /\ lastCall'.out = PyBool(FALSE)

\* C22: a read of the status property to which the SDK answers "not
\* connected" returns the snapshot with connected = False, leaves every
\* other field of the snapshot as it was, and issues no SDK call other
\* than MIRcatSDK_IsConnectedToLaser.
C22_NotConnectedStatusKeepsFields ==
    [][StatusSeesNotConnected
         => /\ todo' = <<>>
            /\ _status' = [_status EXCEPT !.connected = PyBool(FALSE)]
            /\ result' = <<"return", _status'>>
            /\ issued' = {"MIRcatSDK_IsConnectedToLaser"}]_vars

C22_Witness ==
    /\ op = "status"
    /\ Returned
    /\ issued = {"MIRcatSDK_IsConnectedToLaser"}
    /\ result[2].connected = PyBool(FALSE)
    /\ result[2].wl \notin {Unknown, PyNum(0, 1)}
    /\ result[2].numQCLs # Unknown

\* C23: arm_laser, enable_emission and tune return only when the latest
\* query of their wait_till (MIRcatSDK_IsLaserArmed, MIRcatSDK_IsEmissionOn,
\* MIRcatSDK_IsTuned) returned code 0 and reported True.
C23_SuccessNeedsSuccessfulQuery ==
    (op \in {"arm_laser", "enable_emission", "tune"} /\ Returned)
        => /\ lastCall.fn = (CASE op = "arm_laser" -> "MIRcatSDK_IsLaserArmed"
                               [] op = "enable_emission" ->
                                    "MIRcatSDK_IsEmissionOn"
                               [] op = "tune" -> "MIRcatSDK_IsTuned")
           /\ lastCall.ret = MIRcatSDK_RET_SUCCESS
           /\ lastCall.out = PyBool(TRUE)

\* the keys of self._scan_status after _initialize
ScanFields ==
    {"isScanInProgress", "isScanActive", "isScanPaused", "curScanRepetition",
     "curScanPercent", "curWW", "units", "isTECInProgress",
     "isMotionInProgress", "wl", "wn"}

\* C24: the scan-status snapshot always has the fields it has after
\* construction, "units" among them, however many times scanStatus has
\* been read.
C24_ScanStatusKeepsFields == DOMAIN _scan_status = ScanFields
====
